---- MODULE Spec2Model ----
(***************************************************************************)
(* A model of server.js: the socket.io chat relay.  The state is the       *)
(* users object (socket.id -> username), the set of live sockets of the    *)
(* default namespace, and the events the last handler emitted.  Every      *)
(* handler runs to completion on the single-threaded event loop, so each   *)
(* handler is one action; between two handlers the event loop is idle.     *)
(* The record of what a handler emitted and answered is kept until the     *)
(* event loop is idle again; no handler reads it.                          *)
(*                                                                         *)
(* Text (names, messages, file names, urls) is a sequence of strings, one  *)
(* character per element except for the literals the code concatenates.    *)
(* Identifiers and type tags are strings.                                  *)
(***************************************************************************)
EXTENDS Integers, Sequences, FiniteSets, TLC

\* ------------------------------------------------------------------ bounds

MaxNameLen == 2     \* longest raw name a client sends with "set username"
MaxClock == 1       \* Date.now() ranges over 0..MaxClock

\* ------------------------------------------------------- values and inputs

\* socket.id values the transport hands out; an id is never handed out twice
SocketIds == {"A", "B", "C"}

\* JavaScript undefined and null for identifier and type fields
Absent == "<undefined>"
Null == "<null>"
\* JavaScript undefined for text fields
Undefined == <<"<undefined>">>

Anonymous == <<"A", "n", "o", "n", "y", "m", "o", "u", "s">>

Chars == {" ", "b"}
IsSpace(ch) == ch = " "

TextUpTo(n) == UNION {[1..k -> Chars] : k \in 0..n}

\* what a client may send as the argument of "set username"
RawNames == TextUpTo(MaxNameLen) \cup {Undefined}

\* what a client may send as data.message / a bare string
Messages == {<<"h", "i">>, <<>>}

\* data.recipientId / req.body.recipientId: any id, live or not, or none
RecipientIds == SocketIds \cup {Absent}
\* req.body.senderId: any string the caller writes, or none
SenderIds == SocketIds \cup {Absent, "constructor"}
\* data.type / req.body.type
Types == {Absent, "voice"}
\* req.body.username
FormNames == {Undefined, <<>>, <<"Z">>}
\* file.originalname of an uploaded file
OriginalNames == {<<"a", " ", "b">>}

\* ------------------------------------------------------------------- state

VARIABLES
    users,      \* the users object: its own entries <<id, name>> in key order
    sockets,    \* io.sockets.sockets: ids of the live sockets
    closed,     \* ids of sockets that have disconnected
    now,        \* the value Date.now() returns
    emits,      \* the emit calls of the handler that has just run, in order
    response,   \* the HTTP response of the handler that has just run, if any
    last,       \* the event just handled and its arguments, or idle
    prevUsers,  \* users as that handler found it
    named,      \* ids of the sockets that have sent "set username"
    assignedName, \* per live socket: the name its latest "set username" assigned
    seenId,     \* per socket: the id the "your id" it received carried
    seenList    \* per live socket: the "user list" it received last

vars == <<users, sockets, closed, now, emits, response, last, prevUsers, named,
          assignedName, seenId, seenList>>

\* ------------------------------------------------------ the users object

Keys(u) == {u[i][1] : i \in 1..Len(u)}

Has(u, id) == id \in Keys(u)

\* users is an object literal: a key it does not own is looked up in
\* Object.prototype
PrototypeKeys ==
    {"constructor", "toString", "toLocaleString", "valueOf", "hasOwnProperty",
     "isPrototypeOf", "propertyIsEnumerable", "__proto__", "__defineGetter__",
     "__defineSetter__", "__lookupGetter__", "__lookupSetter__"}

\* the function or object Object.prototype holds under key
Inherited(key) == <<"<Object.prototype>", key>>

\* users[id]
Get(u, id) == IF Has(u, id)
              THEN u[CHOOSE i \in 1..Len(u) : u[i][1] = id][2]
              ELSE IF id \in PrototypeKeys THEN Inherited(id) ELSE Undefined

\* a users object that took every assignment as a new key
PutAppend(u, id, name) == Append(u, <<id, name>>)

\* users[id] = name: an existing key keeps its place, a new key goes last
Put(u, id, name) ==
    IF Has(u, id)
    THEN [i \in 1..Len(u) |-> IF u[i][1] = id THEN <<id, name>> ELSE u[i]]
    ELSE Append(u, <<id, name>>)

\* delete users[id]
\* a delete that removes nothing
DeleteNothing(u, id) == u

Delete(u, id) == SelectSeq(u, LAMBDA e : e[1] # id)

\* Object.entries(users).map(([id, name]) => ({ id, name }))
Snapshot(u) == [i \in 1..Len(u) |-> [id |-> u[i][1], name |-> u[i][2]]]

\* a JavaScript truthiness test of a text value
Truthy(t) == t # Undefined /\ t # <<>>

\* a JavaScript truthiness test of an identifier or type value
TruthyId(x) == x # Absent /\ x # Null /\ x # ""

\* ------------------------------------------------------------------- text

RECURSIVE TrimStart(_)
TrimStart(t) == IF t # <<>> /\ IsSpace(Head(t)) THEN TrimStart(Tail(t)) ELSE t

RECURSIVE TrimEnd(_)
TrimEnd(t) == IF t # <<>> /\ IsSpace(t[Len(t)])
              THEN TrimEnd(SubSeq(t, 1, Len(t) - 1))
              ELSE t

\* a trim that leaves the trailing whitespace
TrimStartOnly(t) == TrimStart(t)

\* String.prototype.trim
Trim(t) == TrimEnd(TrimStart(t))

\* username && username.trim() ? username.trim() : "Anonymous"
Assigned(username) ==
    IF Truthy(username) /\ Truthy(Trim(username)) THEN Trim(username) ELSE Anonymous

\* file.originalname.replace(/[^a-zA-Z0-9._-]/g, "_")
SafeChars ==
    {"a", "b", "c", "d", "e", "f", "g", "h", "i", "j", "k", "l", "m",
     "n", "o", "p", "q", "r", "s", "t", "u", "v", "w", "x", "y", "z",
     "A", "B", "C", "D", "E", "F", "G", "H", "I", "J", "K", "L", "M",
     "N", "O", "P", "Q", "R", "S", "T", "U", "V", "W", "X", "Y", "Z",
     "0", "1", "2", "3", "4", "5", "6", "7", "8", "9", ".", "_", "-"}

SafeName(originalname) ==
    [i \in 1..Len(originalname) |->
        IF originalname[i] \in SafeChars THEN originalname[i] ELSE "_"]

Digits == <<"0", "1", "2", "3", "4", "5", "6", "7", "8", "9">>

\* the decimal digits of a number, as a template literal prints it
RECURSIVE NumText(_)
NumText(n) == IF n < 10
              THEN <<Digits[n + 1]>>
              ELSE NumText(n \div 10) \o <<Digits[(n % 10) + 1]>>

\* `${Date.now()}-${safeName}`, at the time multer stores the file
Filename(t, originalname) == NumText(t) \o <<"-">> \o SafeName(originalname)

\* `/uploads/${file.filename}`
FileUrl(file) == <<"/uploads/">> \o file.filename

\* ------------------------------------------------------- socket.io emits
\* An emit call is recorded with the live sockets it reaches.  Every socket
\* is in the room named by its own id and in no other room.

\* io.emit(event, payload)
IoEmit(event, payload, live) ==
    [event |-> event, payload |-> payload, to |-> live]

\* an emit on the socket that reaches every live socket
SocketEmitAll(id, event, payload, live) ==
    [event |-> event, payload |-> payload, to |-> live]

\* socket.emit(event, payload)
SocketEmit(id, event, payload, live) ==
    [event |-> event, payload |-> payload, to |-> {id} \cap live]

\* a broadcast that does not leave the sender out
BroadcastEmitAll(id, event, payload, live) ==
    [event |-> event, payload |-> payload, to |-> live]

\* socket.broadcast.emit(event, payload)
BroadcastEmit(id, event, payload, live) ==
    [event |-> event, payload |-> payload, to |-> live \ {id}]

\* io.to(room).emit(event, payload)
IoToEmit(room, event, payload, live) ==
    [event |-> event, payload |-> payload, to |-> {room} \cap live]

\* a lookup that finds a socket for every id
SocketExistsAlways(id, live) == TRUE

\* io.sockets.sockets.get(id), as a truth value
SocketExists(id, live) == id \in live

\* ------------------------------------------------- what the clients hold

\* no "user list" has reached the client
NoList == <<[id |-> Absent, name |-> Undefined]>>

\* the emit calls among es that deliver event to the socket id
Delivered(es, event, id) ==
    {i \in 1..Len(es) : es[i].event = event /\ id \in es[i].to}

\* the payload of the last delivery of event to id among es, or old
LastDelivered(old, es, event, id) ==
    LET got == Delivered(es, event, id)
    IN IF got = {} THEN old
       ELSE es[CHOOSE i \in got : \A j \in got : j <= i].payload

\* the "user list" each live client holds once the emit calls es are delivered
ListsAfter(old, es, live) ==
    [id \in SocketIds |->
        IF id \in live THEN LastDelivered(old[id], es, "user list", id) ELSE NoList]

\* the id each client was told once the emit calls es are delivered
IdsAfter(old, es) ==
    [id \in SocketIds |-> LastDelivered(old[id], es, "your id", id)]

NoResponse == [status |-> 0]

\* the event loop waits for the next event
Idle == [kind |-> "idle"]

\* --------------------------------------------------------------- handlers

Init ==
    /\ users = <<>>
    /\ sockets = {}
    /\ closed = {}
    /\ now = 0
    /\ emits = <<>>
    /\ response = NoResponse
    /\ last = Idle
    /\ prevUsers = <<>>
    /\ named = {}
    /\ assignedName = [id \in SocketIds |-> Undefined]
    /\ seenId = [id \in SocketIds |-> Absent]
    /\ seenList = [id \in SocketIds |-> NoList]

\* Date.now() advances between events
Tick ==
    /\ now < MaxClock
    /\ now' = now + 1
    /\ UNCHANGED <<users, sockets, closed, emits, response, last, prevUsers, named,
                   assignedName, seenId, seenList>>

\* io.on("connection", socket => ...): the body up to the handler registrations
Connection(id) ==
    /\ id \notin sockets \cup closed
    /\ sockets' = sockets \cup {id}
    /\ emits' = <<SocketEmit(id, "your id", id, sockets')>>
    /\ response' = NoResponse
    /\ last' = [kind |-> "connection", socket |-> id]
    /\ prevUsers' = users
    /\ seenId' = IdsAfter(seenId, emits')
    /\ seenList' = ListsAfter(seenList, emits', sockets')
    /\ UNCHANGED <<users, closed, now, named, assignedName>>

JoinText(assigned) == assigned \o <<" joined the chat">>
LeftText(username) == username \o <<" left the chat">>

\* a "set username" handler that sends the list to the other sockets only
SetUsernameEmitsOthers(id, u, assigned, live) ==
    << BroadcastEmit(id, "user list", Snapshot(u), live),
       BroadcastEmit(id, "user notification", JoinText(assigned), live) >>

SetUsernameEmits(id, u, assigned, live) ==
    << IoEmit("user list", Snapshot(u), live),
       BroadcastEmit(id, "user notification", JoinText(assigned), live) >>

\* socket.on("set username", username => ...)
SetUsername(id, username) ==
    /\ id \in sockets
    /\ LET assigned == Assigned(username)
       IN /\ users' = Put(users, id, assigned)
          /\ emits' = SetUsernameEmits(id, users', assigned, sockets)
    /\ named' = named \cup {id}
    /\ assignedName' = [assignedName EXCEPT ![id] = Assigned(username)]
    /\ seenId' = IdsAfter(seenId, emits')
    /\ seenList' = ListsAfter(seenList, emits', sockets)
    /\ response' = NoResponse
    /\ last' = [kind |-> "set username", socket |-> id, username |-> username]
    /\ prevUsers' = users
    /\ UNCHANGED <<sockets, closed, now>>

\* a disconnect handler that notifies before it sends the list
DisconnectEmitsSwapped(u, username, live) ==
    (IF Truthy(username)
     THEN <<IoEmit("user notification", LeftText(username), live)>>
     ELSE <<>>)
    \o <<IoEmit("user list", Snapshot(u), live)>>

\* a disconnect handler without the test of username
DisconnectEmitsAlways(u, username, live) ==
    << IoEmit("user list", Snapshot(u), live),
       IoEmit("user notification", LeftText(username), live) >>

DisconnectEmits(u, username, live) ==
    <<IoEmit("user list", Snapshot(u), live)>>
    \o (IF Truthy(username)
        THEN <<IoEmit("user notification", LeftText(username), live)>>
        ELSE <<>>)

\* socket.on("disconnect", () => ...): the socket has left the namespace and
\* its rooms when the handler runs
Disconnect(id) ==
    /\ id \in sockets
    /\ sockets' = sockets \ {id}
    /\ closed' = closed \cup {id}
    /\ LET username == Get(users, id)
       IN /\ users' = Delete(users, id)
          /\ emits' = DisconnectEmits(users', username, sockets')
    /\ response' = NoResponse
    /\ last' = [kind |-> "disconnect", socket |-> id]
    /\ prevUsers' = users
    /\ assignedName' = [assignedName EXCEPT ![id] = Undefined]
    /\ seenId' = IdsAfter(seenId, emits')
    /\ seenList' = ListsAfter(seenList, emits', sockets')
    /\ UNCHANGED <<now, named>>

\* what a client may send with "chat message": a bare string, or an object
\* { message, recipientId, type }
ChatData ==
    [form : {"string"}, message : Messages, recipientId : {Absent}, type : {Absent}]
    \cup
    [form : {"object"}, message : Messages, recipientId : RecipientIds, type : Types]

\* data.recipientId || null
OrNull(x) == IF TruthyId(x) THEN x ELSE Null

\* data.type || "text", type || "file"
OrType(x, default) == IF TruthyId(x) THEN x ELSE default

\* a lookup of the name under the first key of users
SenderNameFirst(u, id) == IF u # <<>> THEN u[1][2] ELSE Anonymous

\* users[socket.id] || "Anonymous"
SenderName(u, id) == IF Truthy(Get(u, id)) THEN Get(u, id) ELSE Anonymous

\* the payload of the bare-string branch
TextPayload(u, id, data, t) ==
    [username |-> SenderName(u, id), message |-> data.message, type |-> "text",
     senderId |-> id, recipientId |-> Null, timestamp |-> t]

\* a payload of the object branch that names the recipient as the sender
ChatPayloadFrom(u, id, data, t) ==
    [username |-> SenderName(u, id), message |-> data.message,
     type |-> OrType(data.type, "text"), senderId |-> OrNull(data.recipientId),
     recipientId |-> OrNull(data.recipientId), timestamp |-> t]

\* the payload of the object branch
ChatPayload(u, id, data, t) ==
    [username |-> SenderName(u, id), message |-> data.message,
     type |-> OrType(data.type, "text"), senderId |-> id,
     recipientId |-> OrNull(data.recipientId), timestamp |-> t]

\* a "chat message" handler whose private branch emits to everyone
ChatEmitsLeak(u, id, data, t, live) ==
    IF data.form = "string"
    THEN <<IoEmit("chat message", TextPayload(u, id, data, t), live)>>
    ELSE LET payload == ChatPayload(u, id, data, t)
             recipientId == payload.recipientId
         IN IF TruthyId(recipientId) /\ SocketExists(recipientId, live)
            THEN << IoEmit("chat message", payload, live),
                    SocketEmit(id, "chat message", payload, live) >>
            ELSE <<IoEmit("chat message", payload, live)>>

\* a "chat message" handler that broadcasts with socket.broadcast.emit
ChatEmitsOthers(u, id, data, t, live) ==
    IF data.form = "string"
    THEN <<BroadcastEmit(id, "chat message", TextPayload(u, id, data, t), live)>>
    ELSE LET payload == ChatPayload(u, id, data, t)
             recipientId == payload.recipientId
         IN IF TruthyId(recipientId) /\ SocketExists(recipientId, live)
            THEN << IoToEmit(recipientId, "chat message", payload, live),
                    SocketEmit(id, "chat message", payload, live) >>
            ELSE <<BroadcastEmit(id, "chat message", payload, live)>>

\* the emit calls of socket.on("chat message")
ChatEmits(u, id, data, t, live) ==
    IF data.form = "string"
    THEN <<IoEmit("chat message", TextPayload(u, id, data, t), live)>>
    ELSE LET payload == ChatPayload(u, id, data, t)
             recipientId == payload.recipientId
         IN IF TruthyId(recipientId) /\ SocketExists(recipientId, live)
            THEN << IoToEmit(recipientId, "chat message", payload, live),
                    SocketEmit(id, "chat message", payload, live) >>
            ELSE <<IoEmit("chat message", payload, live)>>

\* a "chat message" handler that also writes the sender's name to users
ChatMessageRegisters(id, data) ==
    /\ id \in sockets
    /\ emits' = ChatEmits(users, id, data, now, sockets)
    /\ users' = Put(users, id, SenderName(users, id))
    /\ response' = NoResponse
    /\ last' = [kind |-> "chat message", socket |-> id, data |-> data]
    /\ prevUsers' = users
    /\ seenId' = IdsAfter(seenId, emits')
    /\ seenList' = ListsAfter(seenList, emits', sockets)
    /\ UNCHANGED <<sockets, closed, now, named, assignedName>>

\* socket.on("chat message", data => ...)
ChatMessage(id, data) ==
    /\ id \in sockets
    /\ emits' = ChatEmits(users, id, data, now, sockets)
    /\ response' = NoResponse
    /\ last' = [kind |-> "chat message", socket |-> id, data |-> data]
    /\ prevUsers' = users
    /\ seenId' = IdsAfter(seenId, emits')
    /\ seenList' = ListsAfter(seenList, emits', sockets)
    /\ UNCHANGED <<users, sockets, closed, now, named, assignedName>>

\* req.file as multer leaves it: none, or a file stored at time t0 <= now
NoFile == [originalname |-> Undefined, filename |-> Undefined]

Files(t) ==
    {NoFile} \cup
    {[originalname |-> o, filename |-> Filename(t0, o)] :
        o \in OriginalNames, t0 \in 0..t}

\* req.body of a multipart request
Bodies ==
    [senderId : SenderIds, recipientId : RecipientIds,
     username : FormNames, type : Types]

\* username || (senderId && users[senderId] ? users[senderId] : "Anonymous")
\*          || "Anonymous"
UploadName(u, body) ==
    IF Truthy(body.username) THEN body.username
    ELSE LET inner == IF TruthyId(body.senderId) /\ Truthy(Get(u, body.senderId))
                      THEN Get(u, body.senderId)
                      ELSE Anonymous
         IN IF Truthy(inner) THEN inner ELSE Anonymous

UploadPayload(u, file, body, t) ==
    [username |-> UploadName(u, body), message |-> FileUrl(file),
     type |-> OrType(body.type, "file"), originalName |-> file.originalname,
     senderId |-> body.senderId, recipientId |-> OrNull(body.recipientId),
     timestamp |-> t]

\* an upload handler that never takes the private branch
UploadEmitsGlobal(u, file, body, t, live) ==
    <<IoEmit("chat message", UploadPayload(u, file, body, t), live)>>

\* the emit calls of app.post("/upload") once the file is there
UploadEmits(u, file, body, t, live) ==
    LET payload == UploadPayload(u, file, body, t)
        recipientId == body.recipientId
        senderId == body.senderId
    IN IF TruthyId(recipientId) /\ SocketExists(recipientId, live)
       THEN <<IoToEmit(recipientId, "chat message", payload, live)>>
            \o (IF TruthyId(senderId)
                THEN <<IoToEmit(senderId, "chat message", payload, live)>>
                ELSE <<>>)
       ELSE <<IoEmit("chat message", payload, live)>>

NoFileResponse == [status |-> 400, body |-> [error |-> <<"No file uploaded.">>]]
OkResponse(fileUrl) == [status |-> 200, body |-> [ok |-> TRUE, fileUrl |-> fileUrl]]

\* an upload handler that dispatches before it looks for the file
UploadDispatchFirst(file, body) ==
    /\ emits' = UploadEmits(users, file, body, now, sockets)
    /\ response' = IF file = NoFile THEN NoFileResponse ELSE OkResponse(FileUrl(file))
    /\ last' = [kind |-> "upload", socket |-> Absent, file |-> file, body |-> body]
    /\ prevUsers' = users
    /\ seenId' = IdsAfter(seenId, emits')
    /\ seenList' = ListsAfter(seenList, emits', sockets)
    /\ UNCHANGED <<users, sockets, closed, now, named, assignedName>>

\* app.post("/upload", upload.single("file"), (req, res) => ...) for a
\* multipart request; nothing in the try block throws for one
Upload(file, body) ==
    /\ IF file = NoFile
       THEN /\ response' = NoFileResponse
            /\ emits' = <<>>
       ELSE /\ emits' = UploadEmits(users, file, body, now, sockets)
            /\ response' = OkResponse(FileUrl(file))
    /\ last' = [kind |-> "upload", socket |-> Absent, file |-> file, body |-> body]
    /\ prevUsers' = users
    /\ seenId' = IdsAfter(seenId, emits')
    /\ seenList' = ListsAfter(seenList, emits', sockets)
    /\ UNCHANGED <<users, sockets, closed, now, named, assignedName>>

\* the handler has returned: the event loop is idle again
Return ==
    /\ last # Idle
    /\ last' = Idle
    /\ emits' = <<>>
    /\ response' = NoResponse
    /\ prevUsers' = users
    /\ seenId' = IdsAfter(seenId, emits')
    /\ seenList' = ListsAfter(seenList, emits', sockets)
    /\ UNCHANGED <<users, sockets, closed, now, named, assignedName>>

\* the event loop takes the next event when the handler before it has returned
Ready == last = Idle

Next ==
    \/ Return
    \/ Ready /\ Tick
    \/ Ready /\ \E id \in SocketIds : Connection(id)
    \/ Ready /\ \E id \in SocketIds, username \in RawNames : SetUsername(id, username)
    \/ Ready /\ \E id \in SocketIds, data \in ChatData : ChatMessage(id, data)
    \/ Ready /\ \E id \in SocketIds : Disconnect(id)
    \/ Ready /\ \E file \in Files(now), body \in Bodies : Upload(file, body)

Spec == Init /\ [][Next]_vars

\* ------------------------------------------------ reading the emit record

\* how many copies of a "chat message" the socket id received
Copies(id) ==
    Cardinality({i \in 1..Len(emits) :
                    emits[i].event = "chat message" /\ id \in emits[i].to})

\* every emit call of the handler is a "chat message" carrying one envelope
OneEnvelope ==
    /\ emits # <<>>
    /\ \A i \in 1..Len(emits) :
          emits[i].event = "chat message" /\ emits[i].payload = emits[1].payload

\* the handler made a single io.emit of the envelope, to every live socket
SingleFanOut ==
    /\ Len(emits) = 1
    /\ emits[1].event = "chat message"
    /\ emits[1].to = sockets

\* how many entries the users object holds for id
EntryCount(u, id) == Cardinality({i \in 1..Len(u) : u[i][1] = id})

\* the handler that has just run is the "chat message" handler, for an object
ChatObject == last.kind = "chat message" /\ last.data.form = "object"

\* the handler that has just run is the upload handler, and a file was there
UploadWithFile == last.kind = "upload" /\ last.file # NoFile

\* ------------------------------------------------------------------ claims

\* C1: when socket A sends an object "chat message" whose recipientId names a
\* live socket B other than A, the envelope (recipientId = B, senderId = A) is
\* delivered once to B, once to A and to no other socket.
C1_PrivateDelivery ==
    (/\ ChatObject
     /\ last.data.recipientId \in sockets
     /\ last.data.recipientId # last.socket)
    => /\ OneEnvelope
       /\ emits[1].payload.recipientId = last.data.recipientId
       /\ emits[1].payload.senderId = last.socket
       /\ \A id \in SocketIds :
             Copies(id) = IF id \in {last.socket, last.data.recipientId} THEN 1 ELSE 0

C1_Witness ==
    /\ ChatObject
    /\ last.data.recipientId \in sockets
    /\ last.data.recipientId # last.socket
    /\ sockets = SocketIds

\* a recipientId was given and no live socket has it
Stale(recipientId) == TruthyId(recipientId) /\ recipientId \notin sockets

\* C2: a message (live channel or upload) whose recipientId names no live
\* socket, the id of a closed socket included, is broadcast: every live
\* socket receives the envelope, which still carries the requested recipientId.
C2_StaleRecipientFallback ==
    /\ (ChatObject /\ Stale(last.data.recipientId))
       => SingleFanOut /\ emits[1].payload.recipientId = last.data.recipientId
    /\ (UploadWithFile /\ Stale(last.body.recipientId))
       => SingleFanOut /\ emits[1].payload.recipientId = last.body.recipientId

C2_Witness ==
    /\ ChatObject
    /\ last.data.recipientId \in closed
    /\ Cardinality(sockets) = 2
    /\ Copies(last.socket) = 1

\* C3: a bare-string "chat message", or an object one with no recipientId, from
\* socket A reaches every live socket, A included, in exactly one copy; for a
\* bare string the envelope has type "text", recipientId null, the string as
\* message and senderId A.
C3_Broadcast ==
    /\ (last.kind = "chat message"
        /\ (last.data.form = "string" \/ ~TruthyId(last.data.recipientId)))
       => /\ SingleFanOut
          /\ last.socket \in emits[1].to
          /\ \A id \in sockets : Copies(id) = 1
    /\ (last.kind = "chat message" /\ last.data.form = "string")
       => /\ emits[1].payload.type = "text"
          /\ emits[1].payload.recipientId = Null
          /\ emits[1].payload.message = last.data.message
          /\ emits[1].payload.senderId = last.socket

C3_Witness ==
    /\ last.kind = "chat message"
    /\ last.data.form = "string"
    /\ last.data.message = <<"h", "i">>
    /\ sockets = SocketIds

\* the text is a notification that someone joined / left
IsJoin(text) == text # <<>> /\ text[Len(text)] = " joined the chat"
IsLeave(text) == text # <<>> /\ text[Len(text)] = " left the chat"

\* the emit call is a "user list" carrying exactly the entries of u, in order
IsUserListOf(e, u) ==
    /\ e.event = "user list"
    /\ Len(e.payload) = Len(u)
    /\ \A i \in 1..Len(u) :
          e.payload[i].id = u[i][1] /\ e.payload[i].name = u[i][2]

C7_SetUsernameBroadcasts ==
    last.kind = "set username"
    => /\ EntryCount(users, last.socket) = 1
       /\ Len(emits) = 2
       /\ IsUserListOf(emits[1], users)
       /\ emits[1].to = sockets
       /\ last.socket \in emits[1].to
       /\ emits[2].event = "user notification"
       /\ emits[2].payload = Get(users, last.socket) \o <<" joined the chat">>
       /\ emits[2].to = sockets \ {last.socket}
       /\ \A i \in 1..Len(emits) :
             emits[i].event = "user notification" => last.socket \notin emits[i].to

C7_Witness ==
    /\ last.kind = "set username"
    /\ sockets = SocketIds
    /\ Len(users) = 2
    /\ Len(prevUsers) = 1

\* the raw name is empty or only whitespace (or no name was sent at all)
Blank(raw) == raw = Undefined \/ \A i \in 1..Len(raw) : raw[i] = " "

\* name is raw without its leading and trailing whitespace
IsTrimOf(name, raw) ==
    /\ name # <<>>
    /\ name[1] # " "
    /\ name[Len(name)] # " "
    /\ \E i \in 0..Len(raw) :
          /\ i + Len(name) <= Len(raw)
          /\ SubSeq(raw, i + 1, i + Len(name)) = name
          /\ \A k \in 1..Len(raw) : (k <= i \/ k > i + Len(name)) => raw[k] = " "

\* C8: "set username" with an empty or whitespace-only raw name assigns
\* "Anonymous", with any other raw name the name without its leading and
\* trailing whitespace; the assigned name replaces the socket's previous name
\* and no other socket's entry changes.
C8_NameNormalization ==
    last.kind = "set username"
    => /\ IF Blank(last.username)
          THEN Get(users, last.socket) = Anonymous
          ELSE IsTrimOf(Get(users, last.socket), last.username)
       /\ Keys(users) = Keys(prevUsers) \cup {last.socket}
       /\ \A id \in SocketIds \ {last.socket} : Get(users, id) = Get(prevUsers, id)

C8_Witness ==
    /\ last.kind = "set username"
    /\ ~Blank(last.username)
    /\ last.username # Get(users, last.socket)
    /\ Has(prevUsers, last.socket)
    /\ Get(prevUsers, last.socket) \notin {Get(users, last.socket), Anonymous}
    /\ Len(users) = 3

Targets(es) == [i \in 1..Len(es) |-> es[i].to]

\* the object a live client would send for the same message
AsChatData(body, message) ==
    [form |-> "object", message |-> message,
     recipientId |-> body.recipientId, type |-> body.type]

\* C10: a successful upload answers {ok: true, fileUrl} and dispatches one
\* envelope whose message is that fileUrl and whose type is the given type, or
\* "file"; with a recipientId that names a live socket the envelope reaches
\* that socket and the sender and no third socket, otherwise every live
\* socket: the emit calls reach the sockets those of a live "chat message"
\* from the sender reach.
C10_UploadRouting ==
    UploadWithFile
    => /\ response.status = 200
       /\ response.body.ok = TRUE
       /\ response.body.fileUrl = <<"/uploads/">> \o last.file.filename
       /\ OneEnvelope
       /\ emits[1].payload.message = response.body.fileUrl
       /\ emits[1].payload.type =
             IF last.body.type = Absent THEN "file" ELSE last.body.type
       /\ IF last.body.recipientId \in sockets
          THEN /\ Copies(last.body.recipientId) >= 1
               /\ \A id \in SocketIds :
                     Copies(id) > 0 =>
                        id \in {last.body.recipientId, last.body.senderId}
               /\ last.body.senderId \in sockets => Copies(last.body.senderId) >= 1
          ELSE SingleFanOut
       /\ last.body.senderId \in sockets
          => Targets(emits) =
                Targets(ChatEmits(users, last.body.senderId,
                                  AsChatData(last.body, emits[1].payload.message),
                                  now, sockets))

C10_Witness ==
    /\ UploadWithFile
    /\ last.body.recipientId \in sockets
    /\ last.body.senderId \in sockets
    /\ last.body.senderId # last.body.recipientId
    /\ sockets = SocketIds
    /\ last.body.type = Absent
    /\ emits[1].payload.type = "file"

\* C11: a private message whose recipientId is the sender's own id (live
\* channel, or upload with senderId = recipientId) is delivered to that socket
\* exactly once: the echo to the sender is made only for a sender other than
\* the recipient.
C11_Original ==
    /\ (ChatObject /\ last.data.recipientId = last.socket)
       => Copies(last.socket) = 1
    /\ (/\ UploadWithFile
        /\ last.body.recipientId \in sockets
        /\ last.body.senderId = last.body.recipientId)
       => Copies(last.body.recipientId) = 1

\* C12: the username of a live-channel envelope is the name the sender's
\* latest "set username" assigned, "Anonymous" when it has sent none; no
\* other socket's "set username" changes it.
C12_UsernameAtDispatch ==
    /\ last.kind = "chat message"
       => \A i \in 1..Len(emits) :
             emits[i].payload.username =
                IF last.socket \in named
                THEN assignedName[last.socket]
                ELSE Anonymous
    /\ \A id \in SocketIds :
          (id \in sockets /\ id \in named) <=> assignedName[id] # Undefined

C12_Witness ==
    /\ last.kind = "chat message"
    /\ assignedName[last.socket] = <<"b">>
    /\ emits[1].payload.username = <<"b">>
    /\ Len(users) = 3
    /\ users[1][1] # last.socket
    /\ users[1][2] = <<"b", "b">>

\* C13: a handler that changes the users object emits, in the same step, a
\* "user list" carrying the full snapshot after the change to every live
\* socket; so the last "user list" a live client holds, if it was connected at
\* the latest change (it holds one at all), is the snapshot of the users
\* object as it is now.
C13_UserListFollowsRegistry ==
    /\ (last.kind # "idle" /\ users # prevUsers)
       => /\ \E i \in 1..Len(emits) :
                IsUserListOf(emits[i], users) /\ emits[i].to = sockets
          /\ \A id \in sockets : seenList[id] = Snapshot(users)
    /\ \A id \in sockets :
          seenList[id] # NoList => seenList[id] = Snapshot(users)
    /\ \A id \in sockets \cap named : seenList[id] # NoList

C13_Witness ==
    /\ last.kind = "set username"
    /\ users # prevUsers
    /\ Len(users) = 2
    /\ Len(prevUsers) = 2
    /\ sockets = SocketIds
    /\ \A id \in sockets : seenList[id] = Snapshot(users)
    /\ \E id \in sockets : id \notin named

\* C14: the connection handler emits "your id" with the new socket's id to
\* that socket alone, before any handler of the socket's own events runs; no
\* socket is ever told an id other than its own.
C14_YourId ==
    /\ last.kind = "connection"
       => emits = <<[event |-> "your id", payload |-> last.socket,
                     to |-> {last.socket}]>>
    /\ \A i \in 1..Len(emits) :
          emits[i].event = "your id"
          => last.kind = "connection" /\ emits[i].to = {emits[i].payload}
    /\ \A id \in SocketIds :
          seenId[id] = IF id \in sockets \cup closed THEN id ELSE Absent
    /\ (last.kind \in {"set username", "chat message", "disconnect"})
       => seenId[last.socket] = last.socket

C14_Witness ==
    /\ last.kind = "connection"
    /\ Cardinality(sockets) = 2
    /\ closed # {}
    /\ users # <<>>
    /\ seenId[last.socket] = last.socket
    /\ \A id \in sockets : seenId[id] = id

\* C15: the username of an upload envelope is the form field username when it
\* is not empty; otherwise the name the users object holds for senderId, when
\* senderId was sent and has an entry at dispatch time; otherwise "Anonymous".
C15_Original ==
    UploadWithFile
    => \A i \in 1..Len(emits) :
          emits[i].payload.username =
             IF last.body.username \notin {Undefined, <<>>}
             THEN last.body.username
             ELSE IF last.body.senderId # Absent /\ Has(users, last.body.senderId)
                  THEN users[CHOOSE k \in 1..Len(users) :
                                users[k][1] = last.body.senderId][2]
                  ELSE Anonymous

\* the entry of id, if any, is the same in the users objects u and v
SameEntry(u, v, id) == Has(u, id) = Has(v, id) /\ Get(u, id) = Get(v, id)

\* C16: the keys of the users object are always ids of live sockets: no entry
\* outlives its socket's disconnect, no handler creates or alters the entry
\* of another socket or of a socket that is not there, and when every socket
\* has disconnected the users object is empty.
C16_RegistryKeysLive ==
    /\ Keys(users) \subseteq sockets
    /\ Keys(users) \cap closed = {}
    /\ (last.kind \in {"set username", "disconnect"})
       => \A id \in SocketIds \ {last.socket} : SameEntry(users, prevUsers, id)
    /\ last.kind = "set username" => last.socket \in sockets
    /\ last.kind = "disconnect" => ~Has(users, last.socket)
    /\ (last.kind \in {"connection", "chat message", "upload"})
       => users = prevUsers
    /\ sockets = {} => users = <<>>

C16_Witness ==
    /\ last.kind = "disconnect"
    /\ sockets = {}
    /\ closed = SocketIds
    /\ named = SocketIds
    /\ Len(prevUsers) = 1
    /\ users = <<>>

\* C17: the "chat message" handler and the upload handler never change the
\* users object, and every event they emit is a "chat message": no "user
\* list", no "user notification", no "your id".
C17_MessagesLeaveRegistry ==
    (last.kind \in {"chat message", "upload"})
    => /\ users = prevUsers
       /\ \A i \in 1..Len(emits) : emits[i].event = "chat message"

C17_Witness ==
    /\ UploadWithFile
    /\ Len(emits) = 2
    /\ last.body.senderId \in sockets \ named
    /\ last.body.username = <<"Z">>
    /\ users # <<>>
    /\ users = prevUsers

\* C18 as stated (an upload that names no sender aside): the senderId of every
\* delivered envelope, from the live channel or from an upload, is the id of
\* a socket connected at dispatch, never the id of a socket that has
\* disconnected.
C18_Original ==
    \A i \in 1..Len(emits) :
       (emits[i].event = "chat message" /\ emits[i].payload.senderId # Absent)
       => /\ emits[i].payload.senderId \in sockets
          /\ emits[i].payload.senderId \notin closed

\* C18, amended: the senderId of a live-channel envelope is the id of the
\* socket whose handler dispatches it, which is connected at dispatch, so no
\* live-channel envelope dispatched after a disconnect carries the
\* disconnected id; the senderId of an upload envelope is the form field
\* senderId as the request sent it, which may be absent, the id of a
\* disconnected socket or no socket's id at all.
C18_SenderId ==
    /\ last.kind = "chat message"
       => /\ last.socket \in sockets
          /\ last.socket \notin closed
          /\ emits # <<>>
          /\ \A i \in 1..Len(emits) :
                /\ emits[i].payload.senderId = last.socket
                /\ emits[i].payload.senderId \notin closed
    /\ UploadWithFile
       => /\ emits # <<>>
          /\ \A i \in 1..Len(emits) :
                emits[i].payload.senderId = last.body.senderId

C18_Witness ==
    /\ UploadWithFile
    /\ last.body.senderId \in closed
    /\ emits[1].payload.senderId \in closed
    /\ emits[1].to = sockets
    /\ Cardinality(sockets) = 2

====
